---------------------------- MODULE Spec2Model ----------------------------
(***************************************************************************)
(* uFlake device provisioning tool (tools/provision_device.py).            *)
(*                                                                         *)
(* One run of main(): parse arguments, check the device id, load the       *)
(* private key, build the identity, hash it, sign the hash, render the C   *)
(* header, ask the operator, write the header file.                        *)
(*                                                                         *)
(* Text is modelled as a sequence of Unicode code points, bytes as a       *)
(* sequence of numbers in 0..255.  A Python value that may be absent is    *)
(* modelled as << >> (absent) or << v >> (present).                        *)
(***************************************************************************)
EXTENDS Integers, Sequences, FiniteSets

VARIABLES
    pc,             \* the stage of main() that runs next
    fs0,            \* the file system when the process starts
    fs,             \* the file system now: path -> kind of contents
    opens,          \* the files opened so far, with the mode of each open
    args,           \* argparse namespace, << >> before parse_args returns
    private_key,    \* what load_private_key returned ("none" for None)
    identity,       \* the identity dict
    fed,            \* the bytes given to hasher.update so far
    identity_hash,  \* hasher.digest()
    signature,      \* what sign_identity returned
    header_content, \* what generate_c_header returned
    response,       \* what input() returned
    completed,      \* the stages that have run to their end, in order
    outcome,        \* how the run ended ("running" until it has)
    exit_code       \* the status of the process, << >> while it runs

vars == << pc, fs0, fs, opens, args, private_key, identity, fed,
           identity_hash, signature, header_content, response,
           completed, outcome, exit_code >>

-----------------------------------------------------------------------------
(* Bounds of the model and constants of the program.                       *)

\* the longest serial given on the command line
MaxSerialLen == 33

\* the longest device id given on the command line
MaxDeviceIdLen == 33

\* serial.ljust(32, '\x00')[:32]
SERIAL_WIDTH == 32

\* len(args.device_id) != 32
DEVICE_ID_CHARS == 32

\* manufacture_date.to_bytes(4, 'little')
DATE_WIDTH == 4

-----------------------------------------------------------------------------
(* Text and byte helpers, as Python computes them.                         *)

Rep(c, n) == [i \in 1..n |-> c]

Min(a, b) == IF a <= b THEN a ELSE b

\* '0'..'9', 'a'..'f', 'A'..'F'
IsHexDigit(c) == c \in (48..57) \cup (97..102) \cup (65..70)

HexVal(c) ==
    IF c \in 48..57 THEN c - 48
    ELSE IF c \in 97..102 THEN c - 87
    ELSE c - 55

\* ASCII whitespace, which bytes.fromhex skips between bytes
IsSpace(c) == c \in {32, 9, 10, 11, 12, 13}

\* bytes.fromhex(s) from position i on: whitespace is skipped, then two
\* adjacent hex digits make one byte; anything else raises ValueError.
RECURSIVE FromHexAt(_, _)
FromHexAt(s, i) ==
    IF i > Len(s) THEN [ok |-> TRUE, bytes |-> << >>]
    ELSE IF IsSpace(s[i]) THEN FromHexAt(s, i + 1)
    ELSE IF i + 1 > Len(s) \/ ~IsHexDigit(s[i]) \/ ~IsHexDigit(s[i + 1])
         THEN [ok |-> FALSE, bytes |-> << >>]
    ELSE LET r == FromHexAt(s, i + 2)
         IN  IF r.ok
             THEN [ok |-> TRUE,
                   bytes |-> << 16 * HexVal(s[i]) + HexVal(s[i + 1]) >> \o r.bytes]
             ELSE r

FromHex(s) == FromHexAt(s, 1)

\* one code point as UTF-8
Utf8Char(cp) ==
    IF cp < 128 THEN << cp >>
    ELSE IF cp < 2048 THEN << 192 + (cp \div 64), 128 + (cp % 64) >>
    ELSE IF cp < 65536
         THEN << 224 + (cp \div 4096), 128 + ((cp \div 64) % 64), 128 + (cp % 64) >>
    ELSE << 240 + (cp \div 262144), 128 + ((cp \div 4096) % 64),
            128 + ((cp \div 64) % 64), 128 + (cp % 64) >>

\* str.encode('utf-8')
RECURSIVE Utf8(_)
Utf8(s) == IF s = << >> THEN << >> ELSE Utf8Char(Head(s)) \o Utf8(Tail(s))

\* str.ljust(width, fill): pads on the right up to width characters
LJust(s, width, fill) ==
    IF Len(s) >= width THEN s ELSE s \o Rep(fill, width - Len(s))

\* s[:n]
Prefix(s, n) == SubSeq(s, 1, Min(n, Len(s)))

\* bytes([v]): ValueError unless v is in range(256)
ByteOf(v) ==
    IF v \in 0..255 THEN [ok |-> TRUE, bytes |-> << v >>]
    ELSE [ok |-> FALSE, bytes |-> << >>]

RECURSIVE LittleEndian(_, _)
LittleEndian(n, width) ==
    IF width = 0 THEN << >>
    ELSE << n % 256 >> \o LittleEndian(n \div 256, width - 1)

\* n < 256 ^ width, computed without leaving the machine integers
RECURSIVE FitsIn(_, _)
FitsIn(n, width) == IF width = 0 THEN n = 0 ELSE FitsIn(n \div 256, width - 1)

\* int.to_bytes(width, 'little'): OverflowError when n does not fit
ToBytesLE(n, width) ==
    IF n >= 0 /\ FitsIn(n, width)
    THEN [ok |-> TRUE, bytes |-> LittleEndian(n, width)]
    ELSE [ok |-> FALSE, bytes |-> << >>]

\* str.lower() on the letters A..Z
LowerChar(c) == IF c \in 65..90 THEN c + 32 ELSE c

\* a comparison that forgets to fold the case
lower_NoFolding(s) == s

lower(s) == [i \in 1..Len(s) |-> LowerChar(s[i])]

-----------------------------------------------------------------------------
(* Cryptography, idealised: SHA-256 is collision free and never returns    *)
(* its argument.  A byte string is [pre, rounds]: pre hashed rounds times. *)

Raw(bytes) == [pre |-> bytes, rounds |-> 0]

\* hashlib.sha256(data).digest()
SHA256(data) == [pre |-> data.pre, rounds |-> data.rounds + 1]

\* EllipticCurvePrivateKey.sign(data, ec.ECDSA(hashes.SHA256())): the data
\* is hashed with the algorithm of the scheme and the digest is signed.
EcdsaSign(key, data) == [signer |-> key, over |-> SHA256(data)]

-----------------------------------------------------------------------------
(* The inputs of a run.                                                    *)

\* --key: its default
KeyPaths == { "device_identity_private_key.pem" }

\* --output: its default, or the path of the key file
OutputPaths == { "device_identity.h", "device_identity_private_key.pem" }

Paths == KeyPaths \cup OutputPaths

\* what the files may hold before the run: the key file is missing, is no
\* PEM key, or is the PEM of an elliptic-curve or of an RSA private key;
\* the header file is missing or is left from an earlier run
InitialFiles ==
    { f \in [Paths -> { "absent", "text", "ec_key", "rsa_key" }] :
        f["device_identity.h"] \in { "absent", "text" } }

\* "UFH-001234"
ExampleSerial == << 85, 70, 72, 45, 48, 48, 49, 50, 51, 52 >>

\* "0123456789abcdef0123456789abcdef"
ExampleDeviceId ==
    << 48, 49, 50, 51, 52, 53, 54, 55, 56, 57, 97, 98, 99, 100, 101, 102,
       48, 49, 50, 51, 52, 53, 54, 55, 56, 57, 97, 98, 99, 100, 101, 102 >>

\* --serial: plain serials around the field width, and serials that hold
\* a character outside ASCII (8364 is the euro sign, 233 e-acute)
SerialInputs ==
    { ExampleSerial, << >>, << 8364 >> }
      \cup { Rep(65, n) : n \in (SERIAL_WIDTH - 1)..MaxSerialLen }
      \cup { << 233 >> \o Rep(65, SERIAL_WIDTH - 1) }

\* --device-id: hex of several lengths, text that is not hex, and hex
\* followed by blanks
DeviceIdInputs ==
    { ExampleDeviceId }
      \cup { Rep(70, n) : n \in (DEVICE_ID_CHARS - 1)..MaxDeviceIdLen }
      \cup { Rep(103, DEVICE_ID_CHARS),
             Rep(97, DEVICE_ID_CHARS - 2) \o << 32, 32 >> }

\* --hwver and --rev (type=int)
HwVersionInputs == { 1, 255, 256 }

BoardRevisionInputs == { 1, -1 }

\* int(time.time())
ClockValues == { 1700000000, 2147483647 }

\* what the operator may type at the prompt:
\* "yes", "YES", "Yes", "no", "y", ""
Responses ==
    { << 121, 101, 115 >>, << 89, 69, 83 >>, << 89, 101, 115 >>,
      << 110, 111 >>, << 121 >>, << >> }

Stages == << "parse", "validate", "load_key", "build", "hash", "sign",
             "render", "confirm", "write" >>

Init ==
    /\ pc = "parse"
    /\ fs0 \in InitialFiles
    /\ fs = fs0
    /\ opens = {}
    /\ args = << >>
    /\ private_key = "none"
    /\ identity = << >>
    /\ fed = << >>
    /\ identity_hash = << >>
    /\ signature = << >>
    /\ header_content = << >>
    /\ response = << >>
    /\ completed = << >>
    /\ outcome = "running"
    /\ exit_code = << >>

\* the process ends with the given status
Exit(how, status) ==
    /\ pc' = "done"
    /\ outcome' = how
    /\ exit_code' = << status >>

\* the stage ran to its end and main goes on with the next one
Goto(stage, next) ==
    /\ pc' = next
    /\ completed' = Append(completed, stage)
    /\ UNCHANGED << outcome, exit_code >>

-----------------------------------------------------------------------------
(* main(), stage by stage.                                                 *)

\* parser.parse_args() returns the namespace
ParseArgsOk ==
    /\ pc = "parse"
    /\ \E serial \in SerialInputs, hwver \in HwVersionInputs,
          rev \in BoardRevisionInputs, device_id \in DeviceIdInputs,
          key \in KeyPaths, output \in OutputPaths, yes \in BOOLEAN :
          args' = << [serial |-> serial, hwver |-> hwver, rev |-> rev,
                      device_id |-> device_id, key |-> key,
                      output |-> output, yes |-> yes] >>
    /\ Goto("parse", "validate")
    /\ UNCHANGED << fs0, fs, opens, private_key, identity, fed, identity_hash,
                    signature, header_content, response >>

\* parser.parse_args() on a command line it rejects (a required option is
\* missing, --hwver is no integer): argparse prints the usage and exits 2
ParseArgsUsageError ==
    /\ pc = "parse"
    /\ Exit("usage_error", 2)
    /\ UNCHANGED << fs0, fs, opens, args, private_key, identity, fed,
                    identity_hash, signature, header_content, response,
                    completed >>

\* parser.parse_args() on --help: argparse prints the help and exits 0
ParseArgsHelp ==
    /\ pc = "parse"
    /\ Exit("help", 0)
    /\ UNCHANGED << fs0, fs, opens, args, private_key, identity, fed,
                    identity_hash, signature, header_content, response,
                    completed >>

\* if len(args.device_id) != 32: return 1
ValidateDeviceId ==
    /\ pc = "validate"
    /\ IF Len(args[1].device_id) # DEVICE_ID_CHARS
       THEN /\ Exit("validation_error", 1)
            /\ UNCHANGED completed
       ELSE Goto("validate", "load_key")
    /\ UNCHANGED << fs0, fs, opens, args, private_key, identity, fed,
                    identity_hash, signature, header_content, response >>

\* a key that cannot be loaded ends the run as a success
LoadKey_ReturnsZero ==
    /\ pc = "load_key"
    /\ LET path == args[1].key
           held == fs[path]
       IN  /\ opens' = IF held = "absent" THEN opens
                        ELSE opens \cup { [path |-> path, mode |-> "rb"] }
           /\ IF held \in { "ec_key", "rsa_key" }
              THEN /\ private_key' = held
                   /\ Goto("load_key", "build")
              ELSE /\ private_key' = "none"
                   /\ Exit("key_load_error", 0)
                   /\ UNCHANGED completed
    /\ UNCHANGED << fs0, fs, args, identity, fed, identity_hash, signature,
                    header_content, response >>

\* load_private_key(args.key), and: if not private_key: return 1.
\* Any exception of open() or of the PEM parser is caught and gives None.
LoadKey ==
    /\ pc = "load_key"
    /\ LET path == args[1].key
           held == fs[path]
       IN  /\ opens' = IF held = "absent" THEN opens
                        ELSE opens \cup { [path |-> path, mode |-> "rb"] }
           /\ IF held \in { "ec_key", "rsa_key" }
              THEN /\ private_key' = held
                   /\ Goto("load_key", "build")
              ELSE /\ private_key' = "none"
                   /\ Exit("key_load_error", 1)
                   /\ UNCHANGED completed
    /\ UNCHANGED << fs0, fs, args, identity, fed, identity_hash, signature,
                    header_content, response >>

generate_device_identity(serial, hw_version, board_revision, device_id, now) ==
    [device_id |-> device_id,
     serial_number |-> Prefix(LJust(serial, SERIAL_WIDTH, 0), SERIAL_WIDTH),
     hw_version |-> hw_version,
     board_revision |-> board_revision,
     manufacture_date |-> now]

\* identity = generate_device_identity(...)
GenerateIdentity ==
    /\ pc = "build"
    /\ \E now \in ClockValues :
          identity' = << generate_device_identity(args[1].serial, args[1].hwver,
                             args[1].rev, args[1].device_id, now) >>
    /\ Goto("build", "hash")
    /\ UNCHANGED << fs0, fs, opens, args, private_key, fed, identity_hash,
                    signature, header_content, response >>

\* The hasher.update calls of calculate_identity_hash, in their order: fed
\* is what the hasher was given, ok is FALSE when a conversion raised.
calculate_identity_hash(id) ==
    LET dev  == FromHex(id.device_id)
        ser  == Utf8(id.serial_number)
        hw   == ByteOf(id.hw_version)
        rev  == ByteOf(id.board_revision)
        date == ToBytesLE(id.manufacture_date, DATE_WIDTH)
    IN  IF ~dev.ok THEN [ok |-> FALSE, fed |-> << >>]
        ELSE IF ~hw.ok THEN [ok |-> FALSE, fed |-> dev.bytes \o ser]
        ELSE IF ~rev.ok THEN [ok |-> FALSE, fed |-> dev.bytes \o ser \o hw.bytes]
        ELSE IF ~date.ok
             THEN [ok |-> FALSE, fed |-> dev.bytes \o ser \o hw.bytes \o rev.bytes]
        ELSE [ok |-> TRUE,
              fed |-> dev.bytes \o ser \o hw.bytes \o rev.bytes \o date.bytes]

\* identity_hash = calculate_identity_hash(identity); an exception of a
\* conversion is not caught: the interpreter prints it and exits 1
CalculateHash ==
    /\ pc = "hash"
    /\ LET r == calculate_identity_hash(identity[1])
       IN  /\ fed' = r.fed
           /\ IF r.ok
              THEN /\ identity_hash' = << SHA256(Raw(r.fed)) >>
                   /\ Goto("hash", "sign")
              ELSE /\ identity_hash' = identity_hash
                   /\ Exit("hash_error", 1)
                   /\ UNCHANGED completed
    /\ UNCHANGED << fs0, fs, opens, args, private_key, identity, signature,
                    header_content, response >>

sign_identity(key, hash) == EcdsaSign(key, hash)

\* the output file is opened before the signature is made
SignIdentity_OpensOutputFirst ==
    /\ pc = "sign"
    /\ fs' = [fs EXCEPT ![args[1].output] = "empty"]
    /\ opens' = opens \cup { [path |-> args[1].output, mode |-> "w"] }
    /\ IF private_key = "ec_key"
       THEN /\ signature' = << sign_identity(private_key, identity_hash[1]) >>
            /\ Goto("sign", "render")
       ELSE /\ signature' = signature
            /\ Exit("sign_error", 1)
            /\ UNCHANGED completed
    /\ UNCHANGED << fs0, args, private_key, identity, fed,
                    identity_hash, header_content, response >>

\* signature = sign_identity(private_key, identity_hash).  A key that is
\* no elliptic-curve key does not take these arguments: the call raises,
\* nothing catches it, the process exits 1.
SignIdentity ==
    /\ pc = "sign"
    /\ IF private_key = "ec_key"
       THEN /\ signature' = << sign_identity(private_key, identity_hash[1]) >>
            /\ Goto("sign", "render")
       ELSE /\ signature' = signature
            /\ Exit("sign_error", 1)
            /\ UNCHANGED completed
    /\ UNCHANGED << fs0, fs, opens, args, private_key, identity, fed,
                    identity_hash, header_content, response >>

\* the initialiser of DEVICE_IDENTITY in the header text
generate_c_header(id, sig) ==
    [device_id |-> FromHex(id.device_id).bytes,
     serial_number |-> id.serial_number,
     hw_version |-> id.hw_version,
     board_revision |-> id.board_revision,
     manufacture_date |-> id.manufacture_date,
     signature |-> sig]

\* rendering gives up on a serial that holds a zero character
GenerateHeader_Aborts ==
    /\ pc = "render"
    /\ IF \E i \in 1..SERIAL_WIDTH : identity[1].serial_number[i] = 0
       THEN /\ header_content' = header_content
            /\ Exit("render_error", 1)
            /\ UNCHANGED completed
       ELSE /\ header_content' = << generate_c_header(identity[1], signature[1]) >>
            /\ Goto("render", "confirm")
    /\ UNCHANGED << fs0, fs, opens, args, private_key, identity, fed,
                    identity_hash, signature, response >>

\* header_content = generate_c_header(identity, signature), and the preview
GenerateHeader ==
    /\ pc = "render"
    /\ header_content' = << generate_c_header(identity[1], signature[1]) >>
    /\ Goto("render", "confirm")
    /\ UNCHANGED << fs0, fs, opens, args, private_key, identity, fed,
                    identity_hash, signature, response >>

\* if not args.yes: skipped with --yes
ConfirmSkipped ==
    /\ pc = "confirm"
    /\ args[1].yes
    /\ Goto("confirm", "write")
    /\ UNCHANGED << fs0, fs, opens, args, private_key, identity, fed,
                    identity_hash, signature, header_content, response >>

\* response = input(...); if response.lower() != 'yes': return 0
ConfirmPrompt ==
    /\ pc = "confirm"
    /\ ~args[1].yes
    /\ \E typed \in Responses :
          /\ response' = << typed >>
          /\ IF lower(typed) # << 121, 101, 115 >>
             THEN /\ Exit("declined", 0)
                  /\ UNCHANGED completed
             ELSE Goto("confirm", "write")
    /\ UNCHANGED << fs0, fs, opens, args, private_key, identity, fed,
                    identity_hash, signature, header_content >>

\* input(...) at the end of standard input raises EOFError, which nothing
\* catches: the process exits 1
ConfirmEndOfInput ==
    /\ pc = "confirm"
    /\ ~args[1].yes
    /\ Exit("input_eof", 1)
    /\ UNCHANGED << fs0, fs, opens, args, private_key, identity, fed,
                    identity_hash, signature, header_content, response,
                    completed >>

\* with open(args.output, 'w') as f: f.write(header_content); return 0
WriteHeader ==
    /\ pc = "write"
    /\ fs' = [fs EXCEPT ![args[1].output] = "header"]
    /\ opens' = opens \cup { [path |-> args[1].output, mode |-> "w"] }
    /\ completed' = Append(completed, "write")
    /\ Exit("written", 0)
    /\ UNCHANGED << fs0, args, private_key, identity, fed, identity_hash,
                    signature, header_content, response >>

\* open(args.output, 'w') raises OSError (no such directory, no permission):
\* nothing is opened, nothing catches it, the process exits 1
WriteHeaderOpenFails ==
    /\ pc = "write"
    /\ Exit("write_error", 1)
    /\ UNCHANGED << fs0, fs, opens, args, private_key, identity, fed,
                    identity_hash, signature, header_content, response,
                    completed >>

\* open(args.output, 'w') creates or truncates the file, then f.write or
\* the close raises OSError (the disk is full): the process exits 1
WriteHeaderWriteFails ==
    /\ pc = "write"
    /\ fs' = [fs EXCEPT ![args[1].output] = "empty"]
    /\ opens' = opens \cup { [path |-> args[1].output, mode |-> "w"] }
    /\ Exit("write_error", 1)
    /\ UNCHANGED << fs0, args, private_key, identity, fed, identity_hash,
                    signature, header_content, response, completed >>

Next ==
    \/ ParseArgsOk
    \/ ParseArgsUsageError
    \/ ParseArgsHelp
    \/ ValidateDeviceId
    \/ LoadKey
    \/ GenerateIdentity
    \/ CalculateHash
    \/ SignIdentity
    \/ GenerateHeader
    \/ ConfirmSkipped
    \/ ConfirmPrompt
    \/ ConfirmEndOfInput
    \/ WriteHeader
    \/ WriteHeaderOpenFails
    \/ WriteHeaderWriteFails

Spec == Init /\ [][Next]_vars

-----------------------------------------------------------------------------
(* What the claims are stated with.                                        *)

Range(s) == { s[i] : i \in 1..Len(s) }

Done(stage) == stage \in Range(completed)

\* the public half of a key pair
PublicKeyOf(key) == << "public", key >>

Parsed == args # << >>

\* exactly 32 hexadecimal characters
IsHex32(s) == Len(s) = 32 /\ \A i \in 1..Len(s) : IsHexDigit(s[i])

\* "yes", compared as it stands
YesText == << 121, 101, 115 >>

\* "yes" in any letter case
IsYesInAnyCase(s) ==
    /\ Len(s) = 3
    /\ s[1] \in { 121, 89 }
    /\ s[2] \in { 101, 69 }
    /\ s[3] \in { 115, 83 }

\* the output file was opened for writing
OutputOpened == \E o \in opens : o.mode = "w"

\* a verifier that holds the public key and the canonical bytes and
\* hashes them once with SHA-256
Verifies(public_key, canonical, sig) ==
    /\ PublicKeyOf(sig.signer) = public_key
    /\ sig.over = SHA256(Raw(canonical))

\* the canonical bytes with the byte at position i changed
Altered(canonical, i) == [canonical EXCEPT ![i] = (canonical[i] + 1) % 256]

\* the stage at which a run ended without writing
EndedAt ==
    CASE outcome = "validation_error" -> "validate"
      [] outcome = "key_load_error"   -> "load_key"
      [] outcome = "hash_error"       -> "hash"
      [] outcome = "sign_error"       -> "sign"
      [] outcome \in { "declined", "input_eof" } -> "confirm"
      [] OTHER -> "elsewhere"

-----------------------------------------------------------------------------
(* C1.  For a device id of 32 hex characters, any serial, hw_version and   *)
(* board_revision in 0..255 and a 32-bit timestamp, the bytes given to the *)
(* hasher are 54 bytes: device_id (16), serial_number (32), hw_version     *)
(* (1), board_revision (1), manufacture_date (4, little-endian), in this   *)
(* order.  The code gives more than 54 bytes when the serial holds a       *)
(* character outside ASCII.                                                *)
C1_CanonicalEncodingIs54Bytes ==
    (Done("hash") /\ IsHex32(identity[1].device_id)) =>
        /\ Len(fed) = 54
        /\ SubSeq(fed, 1, 16) = FromHex(identity[1].device_id).bytes
        /\ SubSeq(fed, 17, 48) = Utf8(identity[1].serial_number)
        /\ fed[49] = identity[1].hw_version
        /\ fed[50] = identity[1].board_revision
        /\ SubSeq(fed, 51, 54) = LittleEndian(identity[1].manufacture_date, 4)

(* C2.  The signature main makes is accepted by a verifier that holds the  *)
(* public key and the canonical bytes and hashes them once with SHA-256,   *)
(* and is rejected once a byte of the canonical bytes is altered.  The     *)
(* code signs the SHA-256 of the digest, so the verifier rejects it.       *)
C2_SignatureVerifiesOverCanonicalBytes ==
    Done("sign") =>
        /\ Verifies(PublicKeyOf(private_key), fed, signature[1])
        /\ \A i \in 1..Len(fed) :
              ~Verifies(PublicKeyOf(private_key), Altered(fed, i), signature[1])

(* C3.  The stored serial_number encodes to exactly 32 bytes: a serial of  *)
(* fewer than 32 bytes is padded with zero bytes, one of 32 bytes is kept, *)
(* a longer one is cut to its first 32 bytes.  The code pads and cuts      *)
(* characters, not bytes.                                                  *)
C3_SerialFieldIs32Bytes ==
    Done("build") =>
        LET given  == Utf8(args[1].serial)
            stored == Utf8(identity[1].serial_number)
        IN  /\ Len(stored) = 32
            /\ Len(given) < 32 => stored = given \o Rep(0, 32 - Len(given))
            /\ Len(given) = 32 => stored = given
            /\ Len(given) > 32 => stored = SubSeq(given, 1, 32)

(* C4.  The device-id check of main lets a device id pass if and only if   *)
(* it is exactly 32 hexadecimal characters, and rejects every other one    *)
(* with a validation error.  The code checks the length alone.             *)
C4_DeviceIdCheckAcceptsExactlyHex32 ==
    (Parsed /\ pc # "validate") =>
        /\ Done("validate") <=> IsHex32(args[1].device_id)
        /\ outcome = "validation_error" <=> ~IsHex32(args[1].device_id)

(* C5, as the spec has it.  At the prompt, the input "yes" has the         *)
(* artifact written (unless the write itself fails); any other input       *)
(* leaves the artifact file as it was and main returns 0.                  *)
C5_OnlyYesAsTypedProceeds ==
    (response # << >> /\ pc = "done" /\ outcome # "write_error") =>
        IF response[1] = YesText
        THEN fs[args[1].output] = "header"
        ELSE /\ fs = fs0
             /\ ~OutputOpened
             /\ exit_code = << 0 >>

(* C5, amended.  At the prompt, the input "yes" in any letter case has the *)
(* artifact written (unless the write itself fails); any other input       *)
(* leaves the artifact file as it was and main returns 0.                  *)
C5_YesInAnyCaseProceeds ==
    (response # << >> /\ pc = "done" /\ outcome # "write_error") =>
        IF IsYesInAnyCase(response[1])
        THEN fs[args[1].output] = "header"
        ELSE /\ fs = fs0
             /\ ~OutputOpened
             /\ exit_code = << 0 >>

\* the operator typed "YES" and the artifact was written
C5_UpperCaseYesWritten ==
    /\ response = << << 89, 69, 83 >> >>
    /\ ~args[1].yes
    /\ outcome = "written"
    /\ fs[args[1].output] = "header"

(* C6.  The output file is opened for writing only after validation, key   *)
(* loading, identity construction, hashing, signing and rendering have     *)
(* succeeded and the confirmation was given or skipped; a run that fails   *)
(* in one of those steps leaves the files as they were.                    *)
C6_OutputWrittenOnlyAfterFullPipeline ==
    /\ (OutputOpened \/ fs # fs0) =>
          /\ \A st \in { "validate", "load_key", "build", "hash", "sign",
                         "render", "confirm" } : Done(st)
          /\ args[1].yes \/ (response # << >> /\ IsYesInAnyCase(response[1]))
          /\ \A o \in opens : o.mode = "w" => o.path = args[1].output
    /\ outcome \in { "usage_error", "validation_error", "key_load_error",
                     "hash_error", "sign_error", "input_eof", "declined" } =>
          (fs = fs0 /\ ~OutputOpened)

\* a run that failed at signing, with an older header file left untouched
C6_SignFailureLeavesOldHeader ==
    /\ outcome = "sign_error"
    /\ fs0[args[1].output] = "text"
    /\ fs[args[1].output] = "text"
    /\ ~OutputOpened

(* C7, as the spec has it.  A run ends with 0 exactly when the artifact    *)
(* was written or the operator declined, with 1 on a validation, key-load, *)
(* signing or write failure, and with no other status.                     *)
C7_ExitCodeIsZeroOrOne ==
    pc = "done" =>
        /\ exit_code \in { << 0 >>, << 1 >> }
        /\ exit_code = << 0 >> <=>
              \/ Parsed /\ outcome = "written" /\ fs[args[1].output] = "header"
              \/ outcome = "declined"
        /\ outcome \in { "validation_error", "key_load_error", "sign_error",
                         "write_error" } => exit_code = << 1 >>

(* C7, amended.  A run ends with 0 exactly when the artifact was written,  *)
(* the operator declined, or argparse printed the help; with 2 exactly     *)
(* when argparse rejected the command line; with 1 exactly when the device *)
(* id check, the key load, the hashing, the signing, the read of the       *)
(* answer or the write failed; and with no other status.                   *)
C7_ExitCodes ==
    pc = "done" =>
        /\ exit_code \in { << 0 >>, << 1 >>, << 2 >> }
        /\ exit_code = << 0 >> <=>
              \/ Parsed /\ outcome = "written" /\ fs[args[1].output] = "header"
              \/ outcome = "declined"
              \/ outcome = "help"
        /\ exit_code = << 2 >> <=> outcome = "usage_error"
        /\ exit_code = << 1 >> <=>
              outcome \in { "validation_error", "key_load_error", "hash_error",
                            "sign_error", "input_eof", "write_error" }

\* argparse rejected the command line
C7_UsageErrorExitsTwo ==
    /\ pc = "done"
    /\ outcome = "usage_error"
    /\ exit_code = << 2 >>

(* C8.  No run creates, truncates or changes the private key file: it is   *)
(* only ever opened for reading.  The code writes the header over the key  *)
(* file when --output names it.                                            *)
C8_KeyFileNeverWritten ==
    Parsed =>
        /\ fs[args[1].key] = fs0[args[1].key]
        /\ \A o \in opens : o.path = args[1].key => o.mode = "rb"

(* C9.  A run whose inputs are invalid (a device id of the wrong length or *)
(* with a character that is not hex, hw_version or board_revision outside  *)
(* 0..255) exits with a failure before the key file is read.  The code     *)
(* finds everything but the length after it has loaded the key.            *)
C9_InvalidInputsNeverReachKeyLoad ==
    (Parsed /\ (\/ ~IsHex32(args[1].device_id)
                \/ args[1].hwver \notin 0..255
                \/ args[1].rev \notin 0..255)) =>
        /\ ~Done("load_key")
        /\ \A o \in opens : o.path # args[1].key
        /\ pc = "done" => exit_code = << 1 >>

(* C10, as the spec has it.  A run that parsed its command line and did    *)
(* not reach the write step ended at the device id check (error exit) or   *)
(* at the prompt (clean exit); no other stage ends the run.                *)
C10_OnlyValidationAndPromptAbort ==
    (pc = "done" /\ Parsed /\ ~Done("confirm")) =>
        \/ outcome = "validation_error" /\ exit_code = << 1 >>
        \/ outcome = "declined" /\ exit_code = << 0 >>

(* C10, amended.  The stages run in their order.  A run that parsed its    *)
(* command line and did not reach the write step ended at the device id    *)
(* check, the key load, the hashing or the signing (error exit) or at the  *)
(* prompt (clean exit on a declined answer, error exit at the end of       *)
(* input); building the identity and rendering the header end no run.      *)
C10_AbortPoints ==
    /\ completed = SubSeq(Stages, 1, Len(completed))
    /\ (pc = "done" /\ Parsed /\ ~Done("confirm")) =>
          /\ EndedAt \in { "validate", "load_key", "hash", "sign", "confirm" }
          /\ EndedAt = Stages[Len(completed) + 1]
          /\ exit_code = IF outcome = "declined" THEN << 0 >> ELSE << 1 >>

\* a run that ended at the key load
C10_EndedAtKeyLoad ==
    /\ pc = "done"
    /\ outcome = "key_load_error"
    /\ completed = << "parse", "validate" >>
    /\ exit_code = << 1 >>

=============================================================================
